---- MODULE Spec2Model ----
(***************************************************************************)
(* Model of src/app.py: a Streamlit script that converts a PDF to Word,    *)
(* either through pdf2docx ("Digital") or through pdf2image + Tesseract    *)
(* ("Escaneado").  The script is re-run top to bottom on every widget      *)
(* interaction; each action below is one such run.  parse_page_range is a  *)
(* pure function and is modelled by operators over strings, which are      *)
(* sequences of one-character strings.                                     *)
(***************************************************************************)
EXTENDS Integers, Sequences, FiniteSets, TLC

VARIABLES
    tesseract_ok,     \* shutil.which("tesseract") is not None
    poppler_ok,       \* shutil.which("pdftoppm") is not None
    uploaded_file,    \* TRUE iff st.file_uploader returned a file
    precheck_ok,      \* FALSE iff the pre-check of that file raised
    modo_conversion,  \* value of the sidebar radio
    lang,             \* OCR language code
    page_range_str,   \* value of the page-range text input
    pressed,          \* TRUE iff the last run was a "Convertir a Word" press
    pages_list,       \* pages_list of the last run (<<>> when not computed)
    calls,            \* converter invocations of the last run, in order
    download,         \* TRUE iff the last run rendered st.download_button
    caught,           \* exception caught by the main try of the last run
    ocr_first_page,   \* first_page convert_ocr gave pdf2image (0: no call)
    ocr_last_page,    \* last_page convert_ocr gave pdf2image (0: no call)
    headings,         \* page numbers heading the sections of the OCR document
    msgs,             \* messages rendered by the last run
    range_str,        \* argument of a direct parse_page_range call
    max_pages_arg,    \* argument of a direct parse_page_range call
    ret               \* value returned by the direct call (NoRet before it)

vars == <<tesseract_ok, poppler_ok, uploaded_file, precheck_ok,
          modo_conversion, lang,
          page_range_str, pressed, pages_list, calls, download, caught,
          ocr_first_page, ocr_last_page, headings, msgs,
          range_str, max_pages_arg, ret>>

appVars == <<tesseract_ok, poppler_ok, uploaded_file, precheck_ok,
             modo_conversion, lang,
             page_range_str, pressed, pages_list, calls, download, caught,
             ocr_first_page, ocr_last_page, headings>>

----------------------------------------------------------------------------
(* Bounds of the model *)

\* longest string passed to a direct parse_page_range call
MaxLen == 5
\* largest max_pages passed to a direct parse_page_range call
MaxPagesArg == 3
\* longest string typed key by key into the page-range text input
AppMaxLen == 2
\* most images pdf2image returns to one convert_ocr call
MaxImages == 2

\* characters of the strings of direct calls; a token is invalid when it is
\* empty or blank, has a space inside a number, or has a stray '-'
ParseChars == {"0", "1", "2", ",", "-", " "}
\* longer strings passed to direct calls: a letter among numbers, an empty
\* token, a range of three numbers, the docstring's example, overlapping
\* tokens, a range that runs past max_pages
ParseExamples ==
    {<<"1", ",", "x", ",", "3">>,
     <<"1", ",", ",", "3">>,
     <<"2", ",", "1", "-", "2", "-", "3">>,
     <<"1", ",", " ", "3", "-", "5">>,
     <<"2", ",", "1", "-", "3", ",", "2">>,
     <<"3", "-", "9">>,
     <<"x">>}
\* characters typed into the text input
AppChars == {"0", "1", "5", ",", "-"}
\* longer strings pasted into the text input: past the 500 pages, a
\* reversed range, a selection with a gap, the docstring's example,
\* overlapping tokens, a token that is no number
AppExamples ==
    {<<"5", "0", "1">>,
     <<"5", "-", "3">>,
     <<"1", ",", "5">>,
     <<"1", ",", " ", "3", "-", "5">>,
     <<"2", ",", "1", "-", "3", ",", "2">>,
     <<"1", ",", "x", ",", "3">>}

StringsOver(alphabet, n) == UNION {[1..k -> alphabet] : k \in 0..n}

----------------------------------------------------------------------------
(* Python primitives used by parse_page_range *)

\* Python's None, a value distinct from every string over the alphabets
None == <<"None">>

Digits == {"0", "1", "2", "3", "4", "5", "6", "7", "8", "9"}

DigitVal == "0" :> 0 @@ "1" :> 1 @@ "2" :> 2 @@ "3" :> 3 @@ "4" :> 4 @@
            "5" :> 5 @@ "6" :> 6 @@ "7" :> 7 @@ "8" :> 8 @@ "9" :> 9

\* truthiness: `not range_str` holds for None and for the empty string
Falsy(s) == s = None \/ s = <<>>

\* c in s
Contains(s, c) == \E i \in 1..Len(s) : s[i] = c

\* s.split(sep): the maximal pieces between separators, always at least one
RECURSIVE SplitFrom(_, _, _, _)
SplitFrom(s, sep, i, cur) ==
    IF i > Len(s) THEN <<cur>>
    ELSE IF s[i] = sep THEN <<cur>> \o SplitFrom(s, sep, i + 1, <<>>)
    ELSE SplitFrom(s, sep, i + 1, Append(cur, s[i]))

Split(s, sep) == SplitFrom(s, sep, 1, <<>>)

\* s.strip() for the one whitespace character of the alphabets
RECURSIVE LStrip(_)
LStrip(s) == IF s # <<>> /\ Head(s) = " " THEN LStrip(Tail(s)) ELSE s

RECURSIVE RStrip(_)
RStrip(s) ==
    IF s # <<>> /\ s[Len(s)] = " " THEN RStrip(SubSeq(s, 1, Len(s) - 1)) ELSE s

Strip(s) == RStrip(LStrip(s))

\* int(s) accepts surrounding whitespace around a non-empty run of digits;
\* anything else raises ValueError.  (A sign never reaches int() here: '-'
\* is split away first, and '+' and '_' are outside the alphabets.)
IntOK(s) ==
    LET t == Strip(s) IN t # <<>> /\ \A i \in 1..Len(t) : t[i] \in Digits

RECURSIVE DigitsVal(_, _)
DigitsVal(t, acc) ==
    IF t = <<>> THEN acc ELSE DigitsVal(Tail(t), 10 * acc + DigitVal[Head(t)])

IntVal(s) == DigitsVal(Strip(s), 0)

\* range(1, n + 1) in place of range(n)
RangeList_from1(n) == [i \in 1..n |-> i]

\* list(range(n))
RangeList(n) == [i \in 1..n |-> i - 1]

\* list(S) left unsorted: some order of the set, here the descending one
Sorted_unordered(S) ==
    [i \in 1..Cardinality(S) |->
        CHOOSE x \in S : Cardinality({y \in S : y > x}) = i - 1]

\* sorted(list(S)) for a set of integers: position i holds the element
\* with i - 1 elements below it
Sorted(S) ==
    [i \in 1..Cardinality(S) |->
        CHOOSE x \in S : Cardinality({y \in S : y < x}) = i - 1]

----------------------------------------------------------------------------
(* Messages: <<level, text>> *)

MsgParseError ==
    <<"error", "Rango de paginas invalido. Usando todas las paginas.">>

----------------------------------------------------------------------------
(* parse_page_range *)

\* the for loop's body with range endpoints clamped to [1, max_pages]
\* instead of tested against it
ParsePart_clamp(part, max_pages) ==
    IF Contains(part, "-")
    THEN LET nums == Split(part, "-")
         IN IF (\E i \in 1..Len(nums) : ~IntOK(nums[i])) \/ Len(nums) # 2
            THEN [ok |-> FALSE, add |-> {}]
            ELSE LET start == IF IntVal(nums[1]) < 1 THEN 1 ELSE IntVal(nums[1])
                     end == IF IntVal(nums[2]) > max_pages THEN max_pages
                            ELSE IntVal(nums[2])
                 IN [ok |-> TRUE, add |-> (start - 1)..(end - 1)]
    ELSE IF ~IntOK(part)
         THEN [ok |-> FALSE, add |-> {}]
         ELSE LET page == IntVal(part)
              IN IF page > 0 /\ page <= max_pages
                 THEN [ok |-> TRUE, add |-> {page - 1}]
                 ELSE [ok |-> TRUE, add |-> {}]

\* one iteration of the for loop: [ok |-> FALSE] when it raises, else the
\* pages it adds to the set
ParsePart(part, max_pages) ==
    IF Contains(part, "-")
    THEN LET nums == Split(part, "-")
         IN IF (\E i \in 1..Len(nums) : ~IntOK(nums[i])) \/ Len(nums) # 2
            THEN [ok |-> FALSE, add |-> {}]
            ELSE LET start == IntVal(nums[1])
                     end == IntVal(nums[2])
                 IN IF start > 0 /\ end <= max_pages /\ start <= end
                    THEN [ok |-> TRUE, add |-> (start - 1)..(end - 1)]
                    ELSE [ok |-> TRUE, add |-> {}]
    ELSE IF ~IntOK(part)
         THEN [ok |-> FALSE, add |-> {}]
         ELSE LET page == IntVal(part)
              IN IF page > 0 /\ page <= max_pages
                 THEN [ok |-> TRUE, add |-> {page - 1}]
                 ELSE [ok |-> TRUE, add |-> {}]

\* the for loop with the try inside it: a part that raises is skipped
RECURSIVE ParseLoop_skip(_, _, _, _)
ParseLoop_skip(parts, i, pages, max_pages) ==
    IF i > Len(parts) THEN [ok |-> TRUE, pages |-> pages]
    ELSE LET r == ParsePart(parts[i], max_pages)
         IN ParseLoop_skip(parts, i + 1, pages \cup r.add, max_pages)

\* the for loop over parts, from part i on, with the pages gathered so far
RECURSIVE ParseLoop(_, _, _, _)
ParseLoop(parts, i, pages, max_pages) ==
    IF i > Len(parts) THEN [ok |-> TRUE, pages |-> pages]
    ELSE LET r == ParsePart(parts[i], max_pages)
         IN IF r.ok THEN ParseLoop(parts, i + 1, pages \cup r.add, max_pages)
            ELSE [ok |-> FALSE, pages |-> pages]

\* the function with an except block that returns the pages gathered so far
parse_page_range_partial(s, max_pages) ==
    IF Falsy(s) THEN [pages |-> RangeList(max_pages), error |-> FALSE]
    ELSE LET r == ParseLoop(Split(s, ","), 1, {}, max_pages)
         IN [pages |-> Sorted(r.pages), error |-> ~r.ok]

\* the whole function: the list returned and whether st.error was called
parse_page_range(s, max_pages) ==
    IF Falsy(s) THEN [pages |-> RangeList(max_pages), error |-> FALSE]
    ELSE LET r == ParseLoop(Split(s, ","), 1, {}, max_pages)
         IN IF r.ok THEN [pages |-> Sorted(r.pages), error |-> FALSE]
            ELSE [pages |-> RangeList(max_pages), error |-> TRUE]

----------------------------------------------------------------------------
(* The script: widgets, messages and the conversion block *)

ModoDigital == "Digital (Formato perfecto, rapido)"
ModoEscaneado == "Escaneado (OCR, mas lento)"
ModoOptions == <<ModoDigital, ModoEscaneado>>

\* a substring test that both options pass
HasDigital_any(m) == m \in {ModoDigital, ModoEscaneado}

\* "Digital" in modo_conversion, "Escaneado" in modo_conversion
HasDigital(m) == m = ModoDigital
HasEscaneado(m) == m = ModoEscaneado

LangOptions == <<"spa", "eng">>

\* max_pages=500 of the call in the conversion block
DefaultMaxPages == 500

\* what str(e).lower() of a raised exception contains
ExcTexts == {"otro", "tesseract", "poppler", "pdftoppm"}

\* OCR disabled only when both binaries are missing
ocr_disabled_both == ~tesseract_ok /\ ~poppler_ok

\* ocr_disabled = not (tesseract_ok and poppler_ok)
ocr_disabled == ~(tesseract_ok /\ poppler_ok)

MsgTesseractOk == <<"sidebar.success", "Tesseract (OCR) detectado.">>
MsgTesseractMissing == <<"sidebar.error", "Tesseract NO encontrado.">>
MsgTesseractInstall == <<"sidebar.info", "Instala Tesseract-OCR en tu sistema">>
MsgPopplerOk == <<"sidebar.success", "Poppler (PDF) detectado.">>
MsgPopplerMissing == <<"sidebar.error", "Poppler NO encontrado.">>
MsgPopplerInstall == <<"sidebar.info", "Instala Poppler en tu sistema">>
MsgOcrDisabled == <<"sidebar.warning", "Modo OCR deshabilitado.">>
MsgPrecheck == <<"info", "Pre-chequeo de PDF...">>
MsgNoCount == <<"warning", "Conteo de paginas no implementado.">>
MsgPrecheckFailed == <<"error", "No se pudo pre-procesar el PDF: {e}">>
MsgNoFile == <<"info", "Por favor, sube un archivo PDF para comenzar.">>
MsgEmptyRange == <<"error", "Rango de paginas no valido o vacio.">>
MsgPages == <<"text", "Procesando paginas (indice 0): {pages_list}">>
MsgDigitalStart == <<"info", "Iniciando conversion digital...">>
MsgOcrStart == <<"info", "Iniciando conversion OCR...">>
MsgOcrLang == <<"info", "Usando OCR en idioma: {lang_code}.">>
MsgOcrNote == <<"warning", "Nota de OCR: rango continuo de tu seleccion">>
MsgOcrPage == <<"text", "Procesando pagina {page_num}...">>
MsgSuccess == <<"success", "Conversion exitosa!">>
MsgCritical == <<"error", "Ocurrio un error critico durante la conversion.">>
MsgDetail == <<"error", "Detalle: {e}">>
MsgTesseractHint == <<"error", "Error de Tesseract">>
MsgPopplerHint == <<"error", "Error de Poppler">>

\* sections 1 and 2 of the script: dependency check and sidebar
SidebarMsgs ==
    (IF tesseract_ok THEN {MsgTesseractOk}
     ELSE {MsgTesseractMissing, MsgTesseractInstall})
    \cup (IF poppler_ok THEN {MsgPopplerOk}
          ELSE {MsgPopplerMissing, MsgPopplerInstall})
    \cup (IF ocr_disabled THEN {MsgOcrDisabled} ELSE {})

\* the page pre-check of an uploaded file; pre_ok is whether the probing
\* convert_from_bytes call returned
PrecheckMsgs(p_ok, pre_ok) ==
    IF ~p_ok THEN {}
    ELSE IF pre_ok THEN {MsgPrecheck, MsgNoCount}
    ELSE {MsgPrecheckFailed}

\* the guard left out
EmptyList_never(l) == FALSE

\* `not pages_list`
EmptyList(l) == l = <<>>

\* st.success and st.download_button moved out of the try
Offered_always(r) == TRUE

\* whether the conversion block gets to st.success and st.download_button:
\* only when the converter returned
Offered(r) == r.raised = "none"

\* the except block of the conversion
ExceptMsgs(e) ==
    {MsgCritical, MsgDetail}
    \cup (IF e = "tesseract" THEN {MsgTesseractHint} ELSE {})
    \cup (IF e \in {"poppler", "pdftoppm"} THEN {MsgPopplerHint} ELSE {})

\* min(q) and max(q) of a non-empty list: an element no other is below
\* (above); min tries the positions from the front, max from the back
Min(q) ==
    LET n == Len(q)
    IN q[CHOOSE i \in 1..n : \A j \in 1..n : q[i] <= q[j]]

Max(q) ==
    LET n == Len(q)
    IN q[n + 1 - (CHOOSE k \in 1..n : \A j \in 1..n : q[j] <= q[n + 1 - k])]

\* the zero-based list passed on as it is
Pages1Indexed_same(pages) == pages

\* pages_1_indexed of convert_ocr
Pages1Indexed(pages) == [i \in 1..Len(pages) |-> pages[i] + 1]

\* A converter is modelled by the set of results its libraries allow: what
\* it was called with, the exception it raised ("none": it returned), the
\* messages it rendered, and for convert_ocr the rasterized range and the
\* headings added to the document.

\* convert_digital(pdf_bytes, pages_to_convert): pdf2docx returns or raises
convert_digital(pages) ==
    {[calls |-> <<[fn |-> "convert_digital", args |-> <<pages>>]>>,
      raised |-> e, msgs |-> {},
      first_page |-> 0, last_page |-> 0, headings |-> <<>>] :
        e \in ExcTexts \cup {"none"}}

\* the runs of convert_ocr once first_page and last_page are computed:
\* convert_from_bytes raises (n = -1), or returns n images of which
\* Tesseract gets through `done` (done < n: image_to_string raises on image
\* done + 1, after its st.text).  The document is a local of the function:
\* a run that raises returns none, and its headings are recorded as <<>>.
OcrRuns(lang_code, pages, first, last) ==
    LET width == last - first + 1
        most == IF width < MaxImages THEN width ELSE MaxImages
        run(n, done, e) ==
            [calls |-> <<[fn |-> "convert_ocr",
                          args |-> <<lang_code, pages>>]>>,
             raised |-> e,
             msgs |-> {MsgOcrLang}
                      \cup (IF n >= 0 THEN {MsgOcrNote} ELSE {})
                      \cup (IF n > 0 THEN {MsgOcrPage} ELSE {}),
             first_page |-> first, last_page |-> last,
             headings |-> IF e = "none"
                          THEN [i \in 1..done |-> (i - 1) + first]
                          ELSE <<>>]
    IN {run(-1, 0, e) : e \in ExcTexts}
       \cup {run(n, n, "none") : n \in 0..most}
       \cup UNION {{run(n, done, e) : done \in 0..(n - 1), e \in ExcTexts} :
                      n \in 1..most}

\* convert_ocr(pdf_bytes, lang_code, pages_to_convert); min() and max() of
\* an empty list raise ValueError
convert_ocr(lang_code, pages) ==
    IF Len(Pages1Indexed(pages)) = 0
    THEN {[calls |-> <<[fn |-> "convert_ocr", args |-> <<lang_code, pages>>]>>,
           raised |-> "otro", msgs |-> {MsgOcrLang},
           first_page |-> 0, last_page |-> 0, headings |-> <<>>]}
    ELSE UNION {OcrRuns(lang_code, pages, first, last) :
                   first \in {Min(Pages1Indexed(pages))},
                   last \in {Max(Pages1Indexed(pages))}}

\* the mode selection of the conversion block; with neither branch taken
\* docx_bytes is unbound and st.download_button raises NameError
Convert(modo, lang_code, pages) ==
    IF HasDigital(modo)
    THEN {[r EXCEPT !.msgs = @ \cup {MsgDigitalStart}] :
            r \in convert_digital(pages)}
    ELSE IF HasEscaneado(modo)
    THEN {[r EXCEPT !.msgs = @ \cup {MsgOcrStart}] :
            r \in convert_ocr(lang_code, pages)}
    ELSE {[calls |-> <<>>, raised |-> "otro", msgs |-> {},
           first_page |-> 0, last_page |-> 0, headings |-> <<>>]}

----------------------------------------------------------------------------
(* Script runs *)

\* a run in which the button is not pressed renders no conversion output
NoConversion ==
    /\ pressed' = FALSE
    /\ pages_list' = <<>>
    /\ calls' = <<>>
    /\ download' = FALSE
    /\ caught' = "none"
    /\ ocr_first_page' = 0
    /\ ocr_last_page' = 0
    /\ headings' = <<>>

harnessVars == <<range_str, max_pages_arg, ret>>

\* ret before a direct call of parse_page_range has returned
NoRet == [pages |-> <<>>, error |-> FALSE, returned |-> FALSE]

Init ==
    /\ tesseract_ok \in BOOLEAN
    /\ poppler_ok \in BOOLEAN
    /\ uploaded_file = FALSE
    /\ precheck_ok = TRUE
    /\ modo_conversion = ModoOptions[1]
    /\ lang = "spa"
    /\ page_range_str = <<>>
    /\ pressed = FALSE
    /\ pages_list = <<>>
    /\ calls = <<>>
    /\ download = FALSE
    /\ caught = "none"
    /\ ocr_first_page = 0
    /\ ocr_last_page = 0
    /\ headings = <<>>
    /\ msgs = SidebarMsgs \cup {MsgNoFile}
    /\ range_str = <<>>
    /\ max_pages_arg = 0
    /\ ret = NoRet

\* the user picks a PDF in st.file_uploader
UploadFile ==
    /\ ~uploaded_file
    /\ uploaded_file' = TRUE
    /\ precheck_ok' \in (IF poppler_ok THEN BOOLEAN ELSE {TRUE})
    /\ msgs' = SidebarMsgs \cup PrecheckMsgs(poppler_ok, precheck_ok')
    /\ NoConversion
    /\ UNCHANGED <<tesseract_ok, poppler_ok, modo_conversion, lang,
                   page_range_str, harnessVars>>

\* the user removes the file: the text input is no longer rendered
RemoveFile ==
    /\ uploaded_file
    /\ uploaded_file' = FALSE
    /\ precheck_ok' = TRUE
    /\ page_range_str' = <<>>
    /\ msgs' = SidebarMsgs \cup {MsgNoFile}
    /\ NoConversion
    /\ UNCHANGED <<tesseract_ok, poppler_ok, modo_conversion, lang,
                   harnessVars>>

\* what the main section renders before the button
MainMsgs ==
    IF uploaded_file THEN PrecheckMsgs(poppler_ok, precheck_ok) ELSE {MsgNoFile}

\* the user picks another option of the radio, which is disabled when
\* ocr_disabled; the language selectbox is rendered anew with its default
SelectModo(m) ==
    /\ ~ocr_disabled
    /\ m # modo_conversion
    /\ modo_conversion' = m
    /\ lang' = LangOptions[1]
    /\ msgs' = SidebarMsgs \cup MainMsgs
    /\ NoConversion
    /\ UNCHANGED <<tesseract_ok, poppler_ok, uploaded_file, precheck_ok,
                   page_range_str, harnessVars>>

\* the user picks a language in the selectbox, rendered only in OCR mode
SelectLang(l) ==
    /\ HasEscaneado(modo_conversion)
    /\ l # lang
    /\ lang' = l
    /\ msgs' = SidebarMsgs \cup MainMsgs
    /\ NoConversion
    /\ UNCHANGED <<tesseract_ok, poppler_ok, uploaded_file, precheck_ok,
                   modo_conversion, page_range_str, harnessVars>>

\* the edits of the text input that one run picks up: one more character
\* typed at the end, the last character deleted, or a string pasted over it
Edits(s) ==
    {Append(s, c) : c \in IF Len(s) < AppMaxLen THEN AppChars ELSE {}}
    \cup (IF s = <<>> THEN {} ELSE {SubSeq(s, 1, Len(s) - 1)})
    \cup (AppExamples \ {s})

\* the user edits the page-range text input
EditRange(s) ==
    /\ uploaded_file
    /\ page_range_str' = s
    /\ msgs' = SidebarMsgs \cup MainMsgs
    /\ NoConversion
    /\ UNCHANGED <<tesseract_ok, poppler_ok, uploaded_file, precheck_ok,
                   modo_conversion, lang, harnessVars>>

\* the user presses "Convertir a Word": the run with st.button returning True
PressConvert ==
    /\ uploaded_file
    /\ pressed' = TRUE
    /\ \E p \in {parse_page_range(page_range_str, DefaultMaxPages)} :
          /\ pages_list' = p.pages
          /\ IF EmptyList(p.pages)
             THEN /\ calls' = <<>>
                  /\ download' = FALSE
                  /\ caught' = "none"
                  /\ ocr_first_page' = 0
                  /\ ocr_last_page' = 0
                  /\ headings' = <<>>
                  /\ msgs' = SidebarMsgs \cup MainMsgs
                             \cup (IF p.error THEN {MsgParseError} ELSE {})
                             \cup {MsgEmptyRange}
             ELSE \E r \in Convert(modo_conversion, lang, p.pages) :
                     /\ calls' = r.calls
                     /\ caught' = r.raised
                     /\ download' = Offered(r)
                     /\ ocr_first_page' = r.first_page
                     /\ ocr_last_page' = r.last_page
                     /\ headings' = r.headings
                     /\ msgs' = SidebarMsgs \cup MainMsgs
                                \cup (IF p.error THEN {MsgParseError} ELSE {})
                                \cup {MsgPages} \cup r.msgs
                                \cup (IF Offered(r) THEN {MsgSuccess}
                                      ELSE ExceptMsgs(r.raised))
    /\ UNCHANGED <<tesseract_ok, poppler_ok, uploaded_file, precheck_ok,
                   modo_conversion, lang, page_range_str, harnessVars>>

Next ==
    \/ UploadFile
    \/ RemoveFile
    \/ \E m \in {ModoOptions[1], ModoOptions[2]} : SelectModo(m)
    \/ \E l \in {LangOptions[1], LangOptions[2]} : SelectLang(l)
    \/ \E s \in Edits(page_range_str) : EditRange(s)
    \/ PressConvert

Spec == Init /\ [][Next]_vars

----------------------------------------------------------------------------
(* Direct calls of parse_page_range *)

AppIdle ==
    /\ tesseract_ok = TRUE
    /\ poppler_ok = TRUE
    /\ uploaded_file = FALSE
    /\ precheck_ok = TRUE
    /\ modo_conversion = ModoDigital
    /\ lang = "spa"
    /\ page_range_str = <<>>
    /\ pressed = FALSE
    /\ pages_list = <<>>
    /\ calls = <<>>
    /\ download = FALSE
    /\ caught = "none"
    /\ ocr_first_page = 0
    /\ ocr_last_page = 0
    /\ headings = <<>>

InitParse ==
    /\ AppIdle
    /\ msgs = {}
    /\ range_str \in StringsOver(ParseChars, MaxLen) \cup ParseExamples
                      \cup {None}
    /\ max_pages_arg \in 0..MaxPagesArg
    /\ ret = NoRet

CallParse ==
    /\ ~ret.returned
    /\ LET r == parse_page_range(range_str, max_pages_arg)
       IN /\ ret' = [pages |-> r.pages, error |-> r.error, returned |-> TRUE]
          /\ msgs' = IF r.error THEN msgs \cup {MsgParseError} ELSE msgs
    /\ UNCHANGED <<appVars, range_str, max_pages_arg>>

NextParse == CallParse

SpecParse == InitParse /\ [][NextParse]_vars

----------------------------------------------------------------------------
(* The page-range grammar, stated on the characters of the string *)

\* the maximal comma-free pieces of s, as <<first, last>> positions
TokenSpans(s) ==
    {sp \in (1..(Len(s) + 1)) \X (0..Len(s)) :
        /\ sp[1] <= sp[2] + 1
        /\ sp[1] = 1 \/ s[sp[1] - 1] = ","
        /\ sp[2] = Len(s) \/ s[sp[2] + 1] = ","
        /\ \A k \in sp[1]..sp[2] : s[k] # ","}

TokenSet(s) == {SubSeq(s, sp[1], sp[2]) : sp \in TokenSpans(s)}

\* a run of digits with optional spaces around it
IsPageToken(t) ==
    \E i, j \in 1..Len(t) :
        /\ i <= j
        /\ \A k \in 1..Len(t) :
              IF k < i \/ k > j THEN t[k] = " " ELSE t[k] \in Digits

RECURSIVE Pow10(_)
Pow10(n) == IF n = 0 THEN 1 ELSE 10 * Pow10(n - 1)

RECURSIVE SumOver(_, _)
SumOver(D, f) ==
    IF D = {} THEN 0
    ELSE LET k == CHOOSE x \in D : TRUE IN f[k] + SumOver(D \ {k}, f)

\* the decimal value of the digits of t
NumValue(t) ==
    LET D == {k \in 1..Len(t) : t[k] \in Digits}
    IN SumOver(D, [k \in D |->
                     DigitVal[t[k]] * Pow10(Cardinality({m \in D : m > k}))])

\* two page tokens joined by one '-'
IsRangeToken(t) ==
    \E k \in 1..Len(t) :
        /\ t[k] = "-"
        /\ IsPageToken(SubSeq(t, 1, k - 1))
        /\ IsPageToken(SubSeq(t, k + 1, Len(t)))

DashPos(t) == CHOOSE k \in 1..Len(t) : t[k] = "-"
RangeLo(t) == NumValue(SubSeq(t, 1, DashPos(t) - 1))
RangeHi(t) == NumValue(SubSeq(t, DashPos(t) + 1, Len(t)))

\* a range token written a-b, with spaces only around the whole token
IsPlainRangeToken(t) ==
    /\ IsRangeToken(t)
    /\ t[DashPos(t) - 1] \in Digits
    /\ t[DashPos(t) + 1] \in Digits

ValidToken(t) == IsPageToken(t) \/ IsRangeToken(t)

\* the 1-based pages a valid token names
PagesNamed(t) ==
    IF IsPageToken(t) THEN {NumValue(t)} ELSE RangeLo(t)..RangeHi(t)

\* a valid token whose page, or whose two endpoints, lie in [1, max]
InBounds(t, max) ==
    IF IsPageToken(t) THEN NumValue(t) \in 1..max
    ELSE 1 <= RangeLo(t) /\ RangeLo(t) <= RangeHi(t) /\ RangeHi(t) <= max

IsString(s) == ~Falsy(s)

AllValid(s) == IsString(s) /\ \A t \in TokenSet(s) : ValidToken(t)

WellFormed(s, max) ==
    /\ IsString(s)
    /\ \A t \in TokenSet(s) :
          /\ IsPageToken(t) \/ IsPlainRangeToken(t)
          /\ InBounds(t, max)

ZeroBased(P) == {p - 1 : p \in P}

ElemsOf(q) == {q[i] : i \in 1..Len(q)}

StrictlyIncreasing(q) == \A i \in 1..(Len(q) - 1) : q[i] < q[i + 1]

\* q is [0, 1, ..., n - 1]
IsAllPages(q, n) == Len(q) = n /\ \A i \in 1..n : q[i] = i - 1

----------------------------------------------------------------------------
(* Claims about parse_page_range, checked under SpecParse *)

\* C1 as stated: when every token parses, each range token a-b with a <= b
\* that overlaps [1, max_pages] contributes the zero-based pages of the
\* intersection of [a, b] with [1, max_pages].
C1_RangeClamped ==
    (ret.returned /\ AllValid(range_str)) =>
        \A t \in TokenSet(range_str) :
            (IsRangeToken(t) /\ RangeLo(t) <= RangeHi(t)) =>
                ZeroBased((RangeLo(t)..RangeHi(t)) \cap (1..max_pages_arg))
                    \subseteq ElemsOf(ret.pages)

\* C1 amended: endpoints are tested, not clamped.  When every token parses,
\* the result holds exactly the zero-based pages of the tokens that lie in
\* bounds (1 <= a <= b <= max_pages for a range, 1 <= n <= max_pages for a
\* page); a range token out of bounds contributes no pages.
C1_RangeInBoundsOrDropped ==
    (ret.returned /\ AllValid(range_str)) =>
        /\ ~ret.error
        /\ ElemsOf(ret.pages) =
              UNION {ZeroBased(PagesNamed(t)) :
                        t \in {u \in TokenSet(range_str) :
                                  InBounds(u, max_pages_arg)}}

\* a single range token that overlaps [1, max_pages], runs past it, and
\* yields no page
C1_Witness ==
    /\ ret.returned
    /\ AllValid(range_str)
    /\ \E t \in TokenSet(range_str) :
          /\ TokenSet(range_str) = {t}
          /\ IsRangeToken(t)
          /\ 1 <= RangeLo(t) /\ RangeLo(t) <= max_pages_arg
          /\ RangeHi(t) > max_pages_arg
    /\ ret.pages = <<>>

\* a string that mixes a valid with an invalid token
MixedTokens(s) ==
    /\ IsString(s)
    /\ \E t \in TokenSet(s) : ValidToken(t)
    /\ \E t \in TokenSet(s) : ~ValidToken(t)

\* C2 as stated: with valid and invalid tokens mixed, the result is exactly
\* the zero-based pages of the valid tokens and no error message is shown.
C2_InvalidTokensDropped ==
    (ret.returned /\ MixedTokens(range_str)) =>
        /\ ElemsOf(ret.pages) =
              UNION {ZeroBased(PagesNamed(t)) :
                        t \in {u \in TokenSet(range_str) :
                                  ValidToken(u) /\ InBounds(u, max_pages_arg)}}
        /\ ~ret.error
        /\ MsgParseError \notin msgs

\* C2 amended: one token that is neither a page number nor an a-b range
\* makes the whole parse fail: the result is all pages [0 .. max_pages - 1],
\* whatever the valid tokens name, and the error message is shown.
C2_InvalidTokenFallsBack ==
    (ret.returned /\ IsString(range_str)
        /\ \E t \in TokenSet(range_str) : ~ValidToken(t)) =>
        /\ IsAllPages(ret.pages, max_pages_arg)
        /\ ret.error
        /\ MsgParseError \in msgs

\* '1,x,3' with three pages: the valid tokens name pages 1 and 3, the
\* result is all three pages and the error is shown
C2_Witness ==
    /\ ret.returned
    /\ range_str = <<"1", ",", "x", ",", "3">>
    /\ MixedTokens(range_str)
    /\ \A t \in TokenSet(range_str) :
          ValidToken(t) => InBounds(t, max_pages_arg)
    /\ ret.pages = <<0, 1, 2>>
    /\ MsgParseError \in msgs

\* C3: on empty input (or None), or when no token is a page number or a
\* range, the result is exactly [0, 1, ..., max_pages - 1].
C3_FallbackAllPages ==
    (ret.returned
        /\ (Falsy(range_str)
            \/ \A t \in TokenSet(range_str) : ~ValidToken(t))) =>
        IsAllPages(ret.pages, max_pages_arg)

\* two tokens, neither of them valid, and all of two or more pages returned
C3_Witness ==
    /\ ret.returned
    /\ IsString(range_str)
    /\ Cardinality(TokenSpans(range_str)) = 2
    /\ \A t \in TokenSet(range_str) : ~ValidToken(t)
    /\ max_pages_arg >= 2
    /\ ret.pages = <<0, 1>> \/ ret.pages = <<0, 1, 2>>

\* C4: for a well-formed string (page tokens n with 1 <= n <= max_pages and
\* range tokens a-b with 1 <= a <= b <= max_pages, spaces allowed around a
\* token) the result is the ascending duplicate-free list of the zero-based
\* pages some token names.
C4_WellFormedParsed ==
    (ret.returned /\ WellFormed(range_str, max_pages_arg)) =>
        /\ StrictlyIncreasing(ret.pages)
        /\ ElemsOf(ret.pages) =
              UNION {ZeroBased(PagesNamed(t)) : t \in TokenSet(range_str)}
        /\ ~ret.error

\* overlapping and repeated tokens out of order: '2,1-3,2' yields [0, 1, 2]
C4_Witness ==
    /\ ret.returned
    /\ range_str = <<"2", ",", "1", "-", "3", ",", "2">>
    /\ WellFormed(range_str, max_pages_arg)
    /\ ret.pages = <<0, 1, 2>>

\* C10: every call returns a strictly increasing list of integers in
\* [0, max_pages - 1], on the normal, the empty-input and the fallback path.
C10_ResultInRange ==
    ret.returned =>
        /\ StrictlyIncreasing(ret.pages)
        /\ \A i \in 1..Len(ret.pages) :
              ret.pages[i] \in 0..(max_pages_arg - 1)

\* the fallback path with every page returned, after a token out of bounds
C10_Witness ==
    /\ ret.returned
    /\ ret.error
    /\ range_str = <<"2", "0", ",", "-">>
    /\ max_pages_arg = MaxPagesArg
    /\ Len(ret.pages) = MaxPagesArg

----------------------------------------------------------------------------
(* Claims about the script, checked under Spec *)

Invoked(fn) == \E i \in 1..Len(calls) : calls[i].fn = fn

\* C5: a press with a non-empty page list invokes exactly one converter,
\* convert_digital iff the mode is Digital and convert_ocr iff it is
\* Escaneado; only convert_ocr is given the language, which is 'spa' or
\* 'eng' and 'spa' unless chosen otherwise in OCR mode.
C5_OneConverterPerMode ==
    /\ lang \in {"spa", "eng"}
    /\ modo_conversion = ModoDigital => lang = "spa"
    /\ (pressed /\ pages_list # <<>>) =>
          /\ Len(calls) = 1
          /\ calls[1].fn \in {"convert_digital", "convert_ocr"}
          /\ calls[1].fn = "convert_digital" <=> modo_conversion = ModoDigital
          /\ calls[1].fn = "convert_ocr" <=> modo_conversion = ModoEscaneado
          /\ calls[1].fn = "convert_digital" => Len(calls[1].args) = 1
          /\ calls[1].fn = "convert_ocr" =>
                Len(calls[1].args) = 2 /\ calls[1].args[1] = lang

\* an OCR conversion in English
C5_Witness ==
    /\ pressed
    /\ pages_list # <<>>
    /\ modo_conversion = ModoEscaneado
    /\ Len(calls) = 1
    /\ calls[1].fn = "convert_ocr"
    /\ calls[1].args[1] = "eng"

C7_DownloadOnlyAfterSuccess ==
    /\ download =>
          /\ uploaded_file
          /\ pressed
          /\ Len(calls) = 1
          /\ caught = "none"
          /\ MsgSuccess \in msgs
    /\ MsgSuccess \in msgs => download
    /\ caught # "none" =>
          /\ MsgCritical \in msgs
          /\ MsgDetail \in msgs
          /\ MsgSuccess \notin msgs
          /\ ~download

\* a press in which the converter was invoked and raised
C7_Witness ==
    /\ pressed
    /\ Len(calls) = 1
    /\ caught = "tesseract"
    /\ MsgDetail \in msgs
    /\ ~download

\* C8: convert_ocr rasterizes pages min(P)+1 .. max(P)+1 of the page list P
\* and heads the i-th section (from 0) of the document it returns with
\* min(P)+1+i; convert_digital is given exactly P.
C8_OcrContiguousRange ==
    (pressed /\ Len(calls) = 1) =>
        IF calls[1].fn = "convert_ocr"
        THEN /\ calls[1].args[2] = pages_list
             /\ \E i \in 1..Len(pages_list) :
                   pages_list[i] = ocr_first_page - 1
             /\ \E i \in 1..Len(pages_list) :
                   pages_list[i] = ocr_last_page - 1
             /\ \A i \in 1..Len(pages_list) :
                   /\ ocr_first_page - 1 <= pages_list[i]
                   /\ pages_list[i] <= ocr_last_page - 1
             /\ \A i \in 1..Len(headings) :
                   headings[i] = ocr_first_page + (i - 1)
        ELSE /\ calls[1].args = <<pages_list>>
             /\ ocr_first_page = 0
             /\ headings = <<>>

\* pages 1 and 5 selected, pages 1-5 rasterized, sections headed 1 and 2
C8_Witness ==
    /\ pressed
    /\ Len(calls) = 1
    /\ calls[1].fn = "convert_ocr"
    /\ pages_list = <<0, 4>>
    /\ ocr_first_page = 1
    /\ ocr_last_page = 5
    /\ headings = <<1, 2>>
    /\ download

\* C9: when every token of a non-empty range string parses but is out of
\* bounds the page list is empty; a press with an empty page list shows the
\* 'Rango de paginas no valido o vacio' error, invokes no converter and
\* offers no download; convert_ocr never gets an empty page list.
C9_EmptyPageListGuard ==
    /\ (pressed /\ AllValid(page_range_str)
          /\ \A t \in TokenSet(page_range_str) :
                ~InBounds(t, DefaultMaxPages)) => pages_list = <<>>
    /\ (pressed /\ pages_list = <<>>) =>
          /\ MsgEmptyRange \in msgs
          /\ calls = <<>>
          /\ ~download
    /\ \A i \in 1..Len(calls) :
          calls[i].fn = "convert_ocr" => calls[i].args[2] # <<>>

\* '501' in OCR mode
C9_Witness ==
    /\ pressed
    /\ page_range_str = <<"5", "0", "1">>
    /\ modo_conversion = ModoEscaneado
    /\ pages_list = <<>>
    /\ MsgEmptyRange \in msgs
    /\ calls = <<>>

====
